---- MODULE Spec2Model ----
(***************************************************************************)
(* A model of renderchat.py: the turn segmenter (count_turns,              *)
(* filter_last_turns), the XML serializer (generate_xml_text), the         *)
(* markdown normalizer (clean_markdown_code_blocks), the platform detector *)
(* (detect_platform), the three extractors, the turn options of build_html,*)
(* main and fetch_conversation.                                            *)
(*                                                                         *)
(* A Python str is a sequence of one-character strings.  A Python list is  *)
(* a sequence; the operators keep Python's 0-based indices and add 1 where *)
(* they read the sequence.                                                 *)
(*                                                                         *)
(* The specifications of the functions run one call on values: Init draws  *)
(* the function and its arguments, the function's action computes what the *)
(* call returns or raises.  The later specifications run the calls on list *)
(* objects, run extractions that interleave, and run main and              *)
(* fetch_conversation step by step.                                        *)
(***************************************************************************)
EXTENDS Integers, Sequences, FiniteSets, TLC

VARIABLES
    fn,     \* the function being called
    args,   \* its arguments
    pc,     \* "call" before the body has run, "done" after
    ret,    \* what the call returned or raised
    heap,   \* the list objects of the caller, by reference
    frames, \* the local variables of the calls that run step by step
    world   \* what the program has done outside itself (files, calls made)

vars == <<fn, args, pc, ret, heap, frames, world>>

\* the calls on values use no list object, no frame and nothing outside
NoState == heap = <<>> /\ frames = <<>> /\ world = <<>>

(***************************************************************************)
(* Bounds of the model.                                                    *)
(***************************************************************************)
MaxMsgs == 4    \* messages in a conversation handed to the segmenter/serializer
MaxLines == 3   \* lines in a text handed to clean_markdown_code_blocks

None == [kind |-> "none"]
Return(v) == [kind |-> "return", value |-> v]
Raise(type, msg) == [kind |-> "raise", type |-> type, msg |-> msg]

(***************************************************************************)
(* Python str operations.                                                  *)
(***************************************************************************)
Whitespace == {" ", "\t", "\n", "\r", "\f"}

UpperCase == <<"A","B","C","D","E","F","G","H","I","J","K","L","M",
               "N","O","P","Q","R","S","T","U","V","W","X","Y","Z">>
LowerCase == <<"a","b","c","d","e","f","g","h","i","j","k","l","m",
               "n","o","p","q","r","s","t","u","v","w","x","y","z">>

LowerChar(ch) ==
    IF \E i \in DOMAIN UpperCase : UpperCase[i] = ch
    THEN LowerCase[CHOOSE i \in DOMAIN UpperCase : UpperCase[i] = ch]
    ELSE ch

\* str.lower()
Lower(s) == [i \in DOMAIN s |-> LowerChar(s[i])]

RECURSIVE LStrip(_)
LStrip(s) ==
    IF s # <<>> /\ Head(s) \in Whitespace THEN LStrip(Tail(s)) ELSE s

RECURSIVE RStrip(_)
RStrip(s) ==
    IF s # <<>> /\ s[Len(s)] \in Whitespace
    THEN RStrip(SubSeq(s, 1, Len(s) - 1))
    ELSE s

\* str.strip()
Strip(s) == RStrip(LStrip(s))

\* str.startswith(prefix)
StartsWith(s, prefix) ==
    Len(s) >= Len(prefix) /\ SubSeq(s, 1, Len(prefix)) = prefix

\* sub in s
Contains(s, sub) ==
    \E i \in 0..(Len(s) - Len(sub)) : SubSeq(s, i + 1, i + Len(sub)) = sub

\* str.split("\n"): the pieces between the newlines, at least one piece
RECURSIVE SplitLines(_)
SplitLines(s) ==
    IF \E i \in DOMAIN s : s[i] = "\n"
    THEN LET i == CHOOSE k \in DOMAIN s :
                      s[k] = "\n" /\ \A j \in 1..(k - 1) : s[j] # "\n"
         IN  <<SubSeq(s, 1, i - 1)>> \o SplitLines(SubSeq(s, i + 1, Len(s)))
    ELSE <<s>>

\* "\n".join(lines)
RECURSIVE JoinLines(_)
JoinLines(lines) ==
    IF lines = <<>> THEN <<>>
    ELSE IF Len(lines) = 1 THEN lines[1]
    ELSE lines[1] \o <<"\n">> \o JoinLines(Tail(lines))

Digit == <<"0","1","2","3","4","5","6","7","8","9">>

\* str(n) of a natural number, as an f-string formats it
RECURSIVE IntStr(_)
IntStr(n) ==
    IF n < 10 THEN <<Digit[n + 1]>>
    ELSE IntStr(n \div 10) \o <<Digit[(n % 10) + 1]>>

\* a is the end of b
IsSuffix(a, b) ==
    Len(a) <= Len(b) /\ SubSeq(b, Len(b) - Len(a) + 1, Len(b)) = a

\* All sequences over S of length at most n
SeqsUpTo(S, n) == UNION {[1..k -> S] : k \in 0..n}

(***************************************************************************)
(* Message and the conversations the segmenter and serializer are given.   *)
(***************************************************************************)
Message(role, content) == [role |-> role, content |-> content]

Roles == {"user", "assistant"}

\* the characters of a role value, as an f-string writes it
RoleChars(role) ==
    IF role = "user" THEN <<"u","s","e","r">>
    ELSE <<"a","s","s","i","s","t","a","n","t">>

\* A message open tag, as text inside a message
MarkupContent ==
    <<"o","k","\n"," "," ","<","m","e","s","s","a","g","e"," ",
      "i","n","d","e","x","=","\"","9","\""," ","r","o","l","e","=","\"",
      "u","s","e","r","\"",">">>

Contents == { <<"H","i">>, MarkupContent }

Conversations == SeqsUpTo({Message(r, c) : r \in Roles, c \in Contents}, MaxMsgs)

TurnArgs == (0 - 1)..(MaxMsgs + 1)

(***************************************************************************)
(* count_turns                                                             *)
(***************************************************************************)
\* the inner while: skip the assistant messages that follow a user message
RECURSIVE SkipAssistants(_, _)
SkipAssistants(messages, i) ==
    IF i < Len(messages) /\ messages[i + 1].role = "assistant"
    THEN SkipAssistants(messages, i + 1)
    ELSE i

\* the outer while, from index i with `turns` counted so far
RECURSIVE CountTurnsFrom(_, _, _)
CountTurnsFrom(messages, i, turns) ==
    IF i < Len(messages)
    THEN IF messages[i + 1].role = "user"
         THEN CountTurnsFrom(messages, SkipAssistants(messages, i + 1), turns + 1)
         ELSE CountTurnsFrom(messages, i + 1, turns)
    ELSE turns

\* count_turns counting user-assistant pairs: a user message counts only when an
\* assistant message follows it
count_turns_pairs(messages) ==
    Cardinality({i \in 1..(Len(messages) - 1) :
                    messages[i].role = "user" /\ messages[i + 1].role = "assistant"})

count_turns(messages) == CountTurnsFrom(messages, 0, 0)

(***************************************************************************)
(* filter_last_turns                                                       *)
(***************************************************************************)
\* the backward loop stopping one user message too early in the walk: it
\* compares turns_seen with n_turns before it counts the message
RECURSIVE FindStartBeforeCounting(_, _, _, _)
FindStartBeforeCounting(messages, i, turns_seen, n_turns) ==
    IF i < 0 THEN 0
    ELSE IF messages[i + 1].role = "user"
         THEN IF turns_seen = n_turns
              THEN i
              ELSE FindStartBeforeCounting(messages, i - 1, turns_seen + 1, n_turns)
         ELSE FindStartBeforeCounting(messages, i - 1, turns_seen, n_turns)

\* the backward for loop: the index where turns_seen reaches n_turns, or the
\* initial start_idx = 0 when the loop runs out
RECURSIVE FindStart(_, _, _, _)
FindStart(messages, i, turns_seen, n_turns) ==
    IF i < 0 THEN 0
    ELSE IF messages[i + 1].role = "user"
         THEN IF turns_seen + 1 = n_turns
              THEN i
              ELSE FindStart(messages, i - 1, turns_seen + 1, n_turns)
         ELSE FindStart(messages, i - 1, turns_seen, n_turns)

\* messages[start_idx:]
SliceFrom(messages, start_idx) == SubSeq(messages, start_idx + 1, Len(messages))

\* filter_last_turns without the upper check on n_turns
filter_last_turns_no_upper(messages, n_turns) ==
    IF ~(n_turns > 0)
    THEN Raise("AssertionError", [text |-> "Number of turns must be positive"])
    ELSE Return(SliceFrom(messages,
                          FindStart(messages, Len(messages) - 1, 0, n_turns)))

\* filter_last_turns starting the slice one message after the boundary
filter_last_turns_late(messages, n_turns) ==
    IF ~(n_turns > 0 /\ n_turns <= count_turns(messages))
    THEN Raise("AssertionError", [text |-> "invalid"])
    ELSE Return(SliceFrom(messages,
                          FindStart(messages, Len(messages) - 1, 0, n_turns) + 1))

\* filter_last_turns naming the two counts in each other's place in its message
filter_last_turns_swapped(messages, n_turns) ==
    LET total_turns == count_turns(messages) IN
    IF ~(n_turns > 0)
    THEN Raise("AssertionError", [text |-> "Number of turns must be positive"])
    ELSE IF ~(n_turns <= total_turns)
    THEN Raise("AssertionError",
               [text |-> "Requested {n_turns} turns but conversation only has {total_turns} turns",
                n_turns |-> total_turns, total_turns |-> n_turns])
    ELSE Return(SliceFrom(messages,
                          FindStart(messages, Len(messages) - 1, 0, n_turns)))

filter_last_turns(messages, n_turns) ==
    LET total_turns == count_turns(messages) IN
    IF ~(n_turns > 0)
    THEN Raise("AssertionError", [text |-> "Number of turns must be positive"])
    ELSE IF ~(n_turns <= total_turns)
    THEN Raise("AssertionError",
               [text |-> "Requested {n_turns} turns but conversation only has {total_turns} turns",
                n_turns |-> n_turns, total_turns |-> total_turns])
    ELSE Return(SliceFrom(messages,
                          FindStart(messages, Len(messages) - 1, 0, n_turns)))

(***************************************************************************)
(* The segmenter's specification.                                          *)
(***************************************************************************)
InitTurns ==
    /\ pc = "call"
    /\ ret = None
    /\ NoState
    /\ \/ /\ fn = "count_turns"
          /\ args \in [messages : Conversations]
       \/ /\ fn = "filter_last_turns"
          /\ args \in [messages : Conversations, n_turns : TurnArgs]

CountTurns ==
    /\ pc = "call" /\ fn = "count_turns"
    /\ ret' = Return(count_turns(args.messages))
    /\ pc' = "done"
    /\ UNCHANGED <<fn, args, heap, frames, world>>

FilterLastTurns ==
    /\ pc = "call" /\ fn = "filter_last_turns"
    /\ ret' = filter_last_turns(args.messages, args.n_turns)
    /\ pc' = "done"
    /\ UNCHANGED <<fn, args, heap, frames, world>>

NextTurns == CountTurns \/ FilterLastTurns

SpecTurns == InitTurns /\ [][NextTurns]_vars

\* the positions of the user messages of a conversation
UserPositions(messages) == {i \in DOMAIN messages : messages[i].role = "user"}

CountTurnsDone == pc = "done" /\ fn = "count_turns"
FilterDone == pc = "done" /\ fn = "filter_last_turns"

NthUserFromEnd(messages, n) ==
    CHOOSE s \in UserPositions(messages) :
        Cardinality({u \in UserPositions(messages) : u >= s}) = n

\* C3: for 1 <= n_turns <= count_turns(messages), filter_last_turns returns
\* the contiguous suffix that starts at the n-th user message from the end;
\* its first message is a user message, and for n_turns = count_turns it is
\* the conversation from its first user message on.
C3_FilterReturnsSuffixFromNthUser ==
    (FilterDone /\ 1 <= args.n_turns /\ args.n_turns <= count_turns(args.messages)) =>
        LET m == args.messages
            s == NthUserFromEnd(m, args.n_turns)
        IN  /\ ret = Return(SubSeq(m, s, Len(m)))
            /\ ret.value # <<>>
            /\ ret.value[1].role = "user"
            /\ args.n_turns = count_turns(m) =>
                   /\ \A i \in 1..(s - 1) : m[i].role = "assistant"
                   /\ Len(ret.value) = Len(m) - (s - 1)

\* C3 witness: the last turn of [assistant, user, assistant, user] is the
\* final user message alone, and all turns of it drop the leading assistant.
C3_Witness ==
    /\ FilterDone
    /\ Len(args.messages) = 4
    /\ args.messages[1].role = "assistant"
    /\ args.messages[2].role = "user"
    /\ args.messages[3].role = "assistant"
    /\ args.messages[4].role = "user"
    /\ args.n_turns = 2
    /\ ret.kind = "return"
    /\ Len(ret.value) = 3

(***************************************************************************)
(* clean_markdown_code_blocks                                              *)
(***************************************************************************)
\* The backtick character (U+0060), which a TLA+ string cannot hold
Backtick == "BACKTICK"

\* the fence marker, three backticks
Fence == <<Backtick, Backtick, Backtick>>

FenceMaxLen == 20

\* the language identifiers of the languages set
languages ==
    { <<"p","y","t","h","o","n">>,
      <<"j","a","v","a","s","c","r","i","p","t">>,
      <<"t","y","p","e","s","c","r","i","p","t">>,
      <<"b","a","s","h">>,
      <<"s","h">>,
      <<"j","s","o","n">>,
      <<"y","a","m","l">>,
      <<"y","m","l">>,
      <<"h","t","m","l">>,
      <<"c","s","s">>,
      <<"j","s","x">>,
      <<"t","s","x">>,
      <<"j","a","v","a">>,
      <<"c","p","p">>,
      <<"c">>,
      <<"g","o">>,
      <<"r","u","s","t">>,
      <<"r","u","b","y">>,
      <<"p","h","p">> }

\* the condition of the outer if: the line is a fence line
IsFenceLine(line) ==
    \/ Strip(line) = Fence
    \/ StartsWith(Strip(line), Fence) /\ Len(Strip(line)) <= FenceMaxLen

\* lines[i + 1] exists and is a language identifier
NextIsLanguage(lines, i) ==
    i + 1 < Len(lines) /\ Lower(Strip(lines[i + 2])) \in languages

\* the while loop from index i: the lines appended to cleaned_lines
RECURSIVE CleanedLines(_, _)
CleanedLines(lines, i) ==
    IF i < Len(lines)
    THEN LET line == lines[i + 1] IN
         IF IsFenceLine(line)
         THEN IF NextIsLanguage(lines, i)
              THEN <<Fence \o Strip(lines[i + 2])>> \o CleanedLines(lines, i + 2)
              ELSE <<Fence>> \o CleanedLines(lines, i + 1)
         ELSE <<line>> \o CleanedLines(lines, i + 1)
    ELSE <<>>

clean_markdown_code_blocks(markdown_text) ==
    Strip(JoinLines(CleanedLines(SplitLines(markdown_text), 0)))

\* The lines the texts handed to clean are made of
LinePool ==
    { <<Backtick,Backtick,Backtick>>,
      <<Backtick,Backtick,Backtick,"p","y","t","h","o","n">>,
      <<" "," ",Backtick,Backtick,Backtick>>,
      <<Backtick,Backtick,Backtick,"x","x","x","x","x","x","x","x","x","x","x","x","x","x","x","x","x","x">>,
      <<"p","y","t","h","o","n">>,
      <<"G","o">>,
      <<" ","s","h"," ">>,
      <<"p","r","i","n","t","(","1",")">>,
      <<>> }

Texts == {JoinLines(ls) : ls \in SeqsUpTo(LinePool, MaxLines)}

(***************************************************************************)
(* The normalizer's specification.                                         *)
(***************************************************************************)
InitClean ==
    /\ pc = "call"
    /\ ret = None
    /\ NoState
    /\ fn = "clean_markdown_code_blocks"
    /\ args \in [markdown_text : Texts]

CleanMarkdownCodeBlocks ==
    /\ pc = "call" /\ fn = "clean_markdown_code_blocks"
    /\ ret' = Return(clean_markdown_code_blocks(args.markdown_text))
    /\ pc' = "done"
    /\ UNCHANGED <<fn, args, heap, frames, world>>

NextClean == CleanMarkdownCodeBlocks

SpecClean == InitClean /\ [][NextClean]_vars

CleanDone == pc = "done" /\ fn = "clean_markdown_code_blocks"

\* C4: clean_markdown_code_blocks is idempotent: cleaning its own result
\* gives the result back.
C4_CleanIdempotent ==
    CleanDone => clean_markdown_code_blocks(ret.value) = ret.value

\* what C5 says the loop emits from index i on: a fence line and a following
\* language line become one fence+language line, every other line is itself
\* (a fence line is compared without its surrounding whitespace, so that an
\* indented fence losing its indentation does not count as a change)
RECURSIVE C5_Emitted(_, _)
C5_Emitted(lines, i) ==
    IF i < Len(lines)
    THEN IF IsFenceLine(lines[i + 1])
         THEN IF NextIsLanguage(lines, i)
              THEN <<Fence \o Strip(lines[i + 2])>> \o C5_Emitted(lines, i + 2)
              ELSE <<Strip(lines[i + 1])>> \o C5_Emitted(lines, i + 1)
         ELSE <<lines[i + 1]>> \o C5_Emitted(lines, i + 1)
    ELSE <<>>

\* C5: a fence line followed by a language line is merged with it into one
\* fence+language line; a fence line followed by anything else (or by
\* nothing) is emitted unchanged with the following line left in place; every
\* other line is emitted unchanged.  (Stated on the text before and after the
\* trim of the whole result.)
C5_FenceLinesMergedOrUnchanged ==
    CleanDone =>
        LET lines == SplitLines(args.markdown_text) IN
        /\ CleanedLines(lines, 0) = C5_Emitted(lines, 0)
        /\ ret = Return(Strip(JoinLines(C5_Emitted(lines, 0))))

(***************************************************************************)
(* generate_xml_text                                                       *)
(***************************************************************************)
ConversationOpen == <<"<","c","o","n","v","e","r","s","a","t","i","o","n",">">>
ConversationClose == <<"<","/","c","o","n","v","e","r","s","a","t","i","o","n",">">>
\* '  <message index="'
MessageOpen == <<" "," ","<","m","e","s","s","a","g","e"," ","i","n","d","e","x","=",
      "\"">>
\* '" role="'
RoleAttr == <<"\""," ","r","o","l","e","=","\"">>
\* '">'
TagEnd == <<"\"",">">>
ContentOpen == <<" "," "," "," ","<","c","o","n","t","e","n","t",">">>
ContentIndent == <<" "," "," "," "," "," ">>
ContentClose == <<" "," "," "," ","<","/","c","o","n","t","e","n","t",">">>
MessageClose == <<" "," ","<","/","m","e","s","s","a","g","e",">">>

\* the five lines one loop iteration appends for message msg with index idx
\* html.escape(content): the markup characters written as entities
RECURSIVE Escape(_)
Escape(s) ==
    IF s = <<>> THEN <<>>
    ELSE (CASE Head(s) = "&" -> <<"&","a","m","p",";">>
            [] Head(s) = "<" -> <<"&","l","t",";">>
            [] Head(s) = ">" -> <<"&","g","t",";">>
            [] Head(s) = "\"" -> <<"&","q","u","o","t",";">>
            [] OTHER -> <<Head(s)>>) \o Escape(Tail(s))

\* the five lines of a message with the content escaped
MessageLinesEscaped(idx, msg) ==
    << MessageOpen \o IntStr(idx) \o RoleAttr \o RoleChars(msg.role) \o TagEnd,
       ContentOpen,
       ContentIndent \o Escape(msg.content),
       ContentClose,
       MessageClose >>

MessageLines(idx, msg) ==
    << MessageOpen \o IntStr(idx) \o RoleAttr \o RoleChars(msg.role) \o TagEnd,
       ContentOpen,
       ContentIndent \o msg.content,
       ContentClose,
       MessageClose >>

\* the lines of the for loop over enumerate(messages, 1), from position k on
RECURSIVE XmlLoop(_, _)
XmlLoop(messages, k) ==
    IF k > Len(messages) THEN <<>>
    ELSE MessageLines(k, messages[k]) \o XmlLoop(messages, k + 1)

\* generate_xml_text numbering the messages from 0 (enumerate without start)
RECURSIVE XmlLoopFromZero(_, _)
XmlLoopFromZero(messages, k) ==
    IF k > Len(messages) THEN <<>>
    ELSE MessageLines(k - 1, messages[k]) \o XmlLoopFromZero(messages, k + 1)

generate_xml_text_from_zero(messages) ==
    JoinLines(<<ConversationOpen>> \o XmlLoopFromZero(messages, 1)
                  \o <<ConversationClose>>)

generate_xml_text(messages) ==
    JoinLines(<<ConversationOpen>> \o XmlLoop(messages, 1) \o <<ConversationClose>>)

(***************************************************************************)
(* The serializer's specification.                                         *)
(***************************************************************************)
InitXml ==
    /\ pc = "call"
    /\ ret = None
    /\ NoState
    /\ fn = "generate_xml_text"
    /\ args \in [messages : Conversations]

GenerateXmlText ==
    /\ pc = "call" /\ fn = "generate_xml_text"
    /\ ret' = Return(generate_xml_text(args.messages))
    /\ pc' = "done"
    /\ UNCHANGED <<fn, args, heap, frames, world>>

NextXml == GenerateXmlText

SpecXml == InitXml /\ [][NextXml]_vars

XmlDone == pc = "done" /\ fn = "generate_xml_text"

\* Reading the message elements back out of a text: every place where a message
\* open tag starts, with the index and role attribute values written there.
\* '<message index="'
MessageTagStart == <<"<","m","e","s","s","a","g","e"," ","i","n","d","e","x","=","\"">>

TagPositions(text) ==
    {p \in 1..(Len(text) - Len(MessageTagStart) + 1) :
        SubSeq(text, p, p + Len(MessageTagStart) - 1) = MessageTagStart}

\* the characters of text from position p up to the next double quote
RECURSIVE UpToQuote(_, _)
UpToQuote(text, p) ==
    IF p > Len(text) \/ text[p] = "\"" THEN <<>>
    ELSE <<text[p]>> \o UpToQuote(text, p + 1)

ElementAt(text, p) ==
    LET index == UpToQuote(text, p + Len(MessageTagStart))
        q == p + Len(MessageTagStart) + Len(index)
    IN  [index |-> index,
         role |-> IF /\ q + Len(RoleAttr) - 1 <= Len(text)
                     /\ SubSeq(text, q, q + Len(RoleAttr) - 1) = RoleAttr
                  THEN UpToQuote(text, q + Len(RoleAttr))
                  ELSE <<>>]

\* the message elements of a text, in the order they appear
MessageElements(text) ==
    LET P == TagPositions(text)
        nth(k) == CHOOSE p \in P : Cardinality({q \in P : q < p}) = k - 1
    IN  [k \in 1..Cardinality(P) |-> ElementAt(text, nth(k))]

\* the elements a conversation should give: index 1..len in order, each with
\* the role of the message at that position
ExpectedElements(messages) ==
    [k \in 1..Len(messages) |-> [index |-> IntStr(k), role |-> RoleChars(messages[k].role)]]

\* how many message open tags the contents of a conversation hold themselves
RECURSIVE TagsInContents(_)
TagsInContents(messages) ==
    IF messages = <<>> THEN 0
    ELSE Cardinality(TagPositions(Head(messages).content))
             + TagsInContents(Tail(messages))

\* C6 as stated: for every conversation and every message content, the output
\* holds exactly len(conversation) message elements, with index attributes
\* 1..len in order and the role of the message at each position.
C6_ExactlyLenElementsAnyContent ==
    XmlDone => MessageElements(ret.value) = ExpectedElements(args.messages)

\* C6, amended: when no message content holds a message open tag, the output
\* holds exactly len(conversation) message elements, with index attributes
\* 1..len in order and the role of the message at each position; content is
\* written raw, so in every case the output holds len(conversation) elements
\* plus one for each open tag inside the contents.
C6_ExactlyLenElementsPlainContent ==
    XmlDone =>
        /\ TagsInContents(args.messages) = 0
              => MessageElements(ret.value) = ExpectedElements(args.messages)
        /\ Len(MessageElements(ret.value))
              = Len(args.messages) + TagsInContents(args.messages)

\* C6 witness: a serialized conversation of three plain messages of both roles.
C6_Witness ==
    /\ XmlDone
    /\ Len(args.messages) = 3
    /\ TagsInContents(args.messages) = 0
    /\ args.messages[1].role = "user"
    /\ args.messages[2].role = "assistant"
    /\ Len(MessageElements(ret.value)) = 3
    /\ MessageElements(ret.value)[3].index = <<"3">>

(***************************************************************************)
(* detect_platform                                                         *)
(***************************************************************************)
ChatgptShare == <<"c","h","a","t","g","p","t",".","c","o","m","/","s","h","a","r","e",
      "/">>
ClaudeShare == <<"c","l","a","u","d","e",".","a","i","/","s","h","a","r","e","/">>
GrokShare == <<"g","r","o","k",".","c","o","m","/","s","h","a","r","e","/">>
XaiShare == <<"x",".","a","i","/","s","h","a","r","e","/">>

\* detect_platform without the x.ai alternative of the grok branch
detect_platform_three(url) ==
    IF Contains(url, ChatgptShare) THEN Return("chatgpt")
    ELSE IF Contains(url, ClaudeShare) THEN Return("claude")
    ELSE IF Contains(url, GrokShare) THEN Return("grok")
    ELSE Raise("ValueError",
               [text |-> "URL must be from chatgpt.com/share/, claude.ai/share/, or grok.com/share/"])

detect_platform(url) ==
    IF Contains(url, ChatgptShare) THEN Return("chatgpt")
    ELSE IF Contains(url, ClaudeShare) THEN Return("claude")
    ELSE IF Contains(url, GrokShare) \/ Contains(url, XaiShare) THEN Return("grok")
    ELSE Raise("ValueError",
               [text |-> "URL must be from chatgpt.com/share/, claude.ai/share/, or grok.com/share/"])

\* The URLs handed to detect_platform: scheme, host and the rest
UrlSchemes == { <<"h","t","t","p","s",":","/","/">>, <<"h","t","t","p",":","/","/">>, <<>> }
UrlHosts ==
    { <<"c","h","a","t","g","p","t",".","c","o","m">>,
      <<"c","l","a","u","d","e",".","a","i">>,
      <<"g","r","o","k",".","c","o","m">>,
      <<"x",".","a","i">>,
      <<"e","x","a","m","p","l","e",".","c","o","m">>,
      <<"c","h","a","t",".","o","p","e","n","a","i",".","c","o","m">>,
      <<"n","o","t","g","r","o","k",".","c","o","m">> }
UrlPaths ==
    { <<"/","s","h","a","r","e","/","a","b","1","2">>,
      <<"/","c","/","a","b","1","2">>,
      <<"/","s","h","a","r","e">>,
      <<"/","?","u","=","c","l","a","u","d","e",".","a","i","/","s","h","a",
      "r","e","/","a","b","1","2">>,
      <<>> }

Urls == {s \o h \o p : s \in UrlSchemes, h \in UrlHosts, p \in UrlPaths}

(***************************************************************************)
(* The detector's specification.                                           *)
(***************************************************************************)
InitDetect ==
    /\ pc = "call"
    /\ ret = None
    /\ NoState
    /\ fn = "detect_platform"
    /\ args \in [url : Urls]

DetectPlatform ==
    /\ pc = "call" /\ fn = "detect_platform"
    /\ ret' = detect_platform(args.url)
    /\ pc' = "done"
    /\ UNCHANGED <<fn, args, heap, frames, world>>

NextDetect == DetectPlatform

SpecDetect == InitDetect /\ [][NextDetect]_vars

DetectDone == pc = "done" /\ fn = "detect_platform"

PlatformIds == {"chatgpt", "claude", "grok"}

\* the three prefixes the error message of detect_platform names
ThreePrefixes == {ChatgptShare, ClaudeShare, GrokShare}

MaxNodes == 3     \* message nodes in a document
MaxEntries == 2   \* entries of the mapping of a script data block

\* The paperclip character (U+1F4CE), which a TLA+ string cannot hold
Paperclip == "PAPERCLIP"

\* the attachment note and the blank line after it
AttachmentNote ==
    <<Paperclip," ","*","*","[","A","t","t","a","c","h","m","e","n","t"," ",
      "H","i","d","d","e","n","]","*","*"," ","*","(","F","i","l","e",
      "s","/","i","m","a","g","e","s"," ","a","r","e"," ","n","o","t",
      " ","i","n","c","l","u","d","e","d"," ","i","n"," ","s","h","a",
      "r","e","d"," ","c","o","n","v","e","r","s","a","t","i","o","n",
      "s",")","*","\n","\n">>

\* 'files hidden'
FilesHidden == <<"f","i","l","e","s"," ","h","i","d","d","e","n">>

ExtractionFailed(text) == Raise("ValueError", [text |-> text])

\* the texts md(...).strip() gives for the nodes of the documents
MdTexts ==
    { <<>>,
      <<"H","i">>,
      <<Backtick,Backtick,Backtick,"\n","s","h","\n","l","s">> }

(***************************************************************************)
(* extract_claude_conversation                                             *)
(***************************************************************************)
\* has_hidden_files: some text node holds "files hidden" in any case
ClaudeHasHiddenFiles(doc) ==
    \E k \in DOMAIN doc.strings : Contains(Lower(doc.strings[k]), FilesHidden)

\* the role test taking every div with the standard-markdown class, the
\* font-claude-response parents too
ClaudeRoleWithParents(classes) ==
    IF "!font-user-message" \in classes THEN "user"
    ELSE IF "standard-markdown" \in classes THEN "assistant"
    ELSE ""

\* the role the first loop gives a div, "" when the div is no message
ClaudeRole(classes) ==
    IF "!font-user-message" \in classes THEN "user"
    ELSE IF "standard-markdown" \in classes /\ "font-claude-response" \notin classes
         THEN "assistant"
         ELSE ""

\* all_content_divs: the divs with a role, in document order
RECURSIVE ClaudeContentDivs(_, _)
ClaudeContentDivs(divs, k) ==
    IF k > Len(divs) THEN <<>>
    ELSE (IF ClaudeRole(divs[k].classes) # ""
          THEN <<[md |-> divs[k].md, role |-> ClaudeRole(divs[k].classes)]>>
          ELSE <<>>)
         \o ClaudeContentDivs(divs, k + 1)

\* the note condition written without the added_file_note flag
ClaudeAddsNoteEveryUser(has_hidden_files, role, added_file_note) ==
    has_hidden_files /\ role = "user"

\* the condition under which the note is put before the text
ClaudeAddsNote(has_hidden_files, role, added_file_note) ==
    has_hidden_files /\ role = "user" /\ ~added_file_note

\* the second loop from position k on, with the messages and the flag so far
RECURSIVE ClaudeLoop(_, _, _, _, _)
ClaudeLoop(content_divs, k, has_hidden_files, messages, added_file_note) ==
    IF k > Len(content_divs) THEN messages
    ELSE LET role == content_divs[k].role
             cleaned == clean_markdown_code_blocks(content_divs[k].md)
             adds == ClaudeAddsNote(has_hidden_files, role, added_file_note)
             markdown_text == IF adds THEN AttachmentNote \o cleaned ELSE cleaned
         IN  ClaudeLoop(content_divs, k + 1, has_hidden_files,
                        IF markdown_text # <<>>
                        THEN Append(messages, Message(role, markdown_text))
                        ELSE messages,
                        added_file_note \/ adds)

extract_claude_conversation(doc) ==
    LET messages == ClaudeLoop(ClaudeContentDivs(doc.divs, 1), 1,
                               ClaudeHasHiddenFiles(doc), <<>>, FALSE)
    IN  IF messages = <<>>
        THEN ExtractionFailed("Could not extract conversation data from Claude page")
        ELSE Return(messages)

(***************************************************************************)
(* extract_grok_conversation                                               *)
(***************************************************************************)
\* has_hidden_attachments: some media container has no text
GrokHasHiddenAttachments(doc) ==
    \E k \in DOMAIN doc.media_containers : Strip(doc.media_containers[k]) = <<>>

\* the role test giving a bubble that is not right-aligned the assistant role
GrokRoleDefaultAssistant(parent) ==
    IF parent = None THEN "assistant"
    ELSE IF "items-end" \in parent.classes THEN "user"
    ELSE "assistant"

\* the role of a bubble from the classes of its parent, "" for none; a bubble
\* without a parent has parent = None
GrokRole(parent) ==
    IF parent = None THEN ""
    ELSE IF "items-end" \in parent.classes THEN "user"
    ELSE IF "items-start" \in parent.classes THEN "assistant"
    ELSE ""

\* the note condition written without the added_attachment_note flag
GrokAddsNoteEveryUser(has_hidden_attachments, role, added_attachment_note) ==
    has_hidden_attachments /\ role = "user"

GrokAddsNote(has_hidden_attachments, role, added_attachment_note) ==
    has_hidden_attachments /\ role = "user" /\ ~added_attachment_note

\* the loop over message_bubbles from position k on
RECURSIVE GrokLoop(_, _, _, _, _)
GrokLoop(message_bubbles, k, has_hidden_attachments, messages, added_attachment_note) ==
    IF k > Len(message_bubbles) THEN messages
    ELSE LET role == GrokRole(message_bubbles[k].parent) IN
         IF role = ""
         THEN GrokLoop(message_bubbles, k + 1, has_hidden_attachments,
                       messages, added_attachment_note)
         ELSE LET cleaned == clean_markdown_code_blocks(message_bubbles[k].md)
                  adds == GrokAddsNote(has_hidden_attachments, role,
                                       added_attachment_note)
                  markdown_text == IF adds THEN AttachmentNote \o cleaned ELSE cleaned
              IN  GrokLoop(message_bubbles, k + 1, has_hidden_attachments,
                           IF markdown_text # <<>>
                           THEN Append(messages, Message(role, markdown_text))
                           ELSE messages,
                           added_attachment_note \/ adds)

extract_grok_conversation(doc) ==
    LET messages == GrokLoop(doc.message_bubbles, 1,
                             GrokHasHiddenAttachments(doc), <<>>, FALSE)
    IN  IF messages = <<>>
        THEN ExtractionFailed("Could not extract conversation data from Grok page")
        ELSE Return(messages)

(***************************************************************************)
(* extract_conversation_from_html (ChatGPT)                                *)
(***************************************************************************)
\* the role test of both strategies: role in ["user", "assistant"]
IsMessageRoleAny(role) == TRUE

IsMessageRole(role) == role \in {"user", "assistant"}

\* the primary loop over message_divs from position k on
RECURSIVE ChatgptLoop(_, _, _)
ChatgptLoop(message_divs, k, messages) ==
    IF k > Len(message_divs) THEN messages
    ELSE LET role == message_divs[k].role IN
         IF ~IsMessageRole(role)
         THEN ChatgptLoop(message_divs, k + 1, messages)
         ELSE LET markdown_text == clean_markdown_code_blocks(message_divs[k].md)
              IN  ChatgptLoop(message_divs, k + 1,
                              IF markdown_text # <<>>
                              THEN Append(messages, Message(role, markdown_text))
                              ELSE messages)

(***************************************************************************)
(* A script tag is [string, data]: string is "none" for a tag without      *)
(* text, "invalid" for text json.loads rejects, "json" otherwise, and data *)
(* gives the shape of the parsed value:                                    *)
(*   "number"          5                                                   *)
(*   "no_props"        {}                                                  *)
(*   "pageprops_list"  {"props": {"pageProps": []}}                        *)
(*   "no_data"         {"props": {"pageProps": {}}}                        *)
(*   "no_mapping"      {"props": {"pageProps": {"serverResponse":          *)
(*                                                  {"data": {"x": 1}}}}}  *)
(*   "mapping"         ... {"data": {"mapping": {id: entry, ...}}}         *)
(* with the entries of the mapping in document order.  An entry is         *)
(*   "null_node"       null                                                *)
(*   "no_message"      {"message": null}                                   *)
(*   "message"         {"message": {"author": {"role": role},              *)
(*                                  "content": {"parts": parts}}}          *)
(* whose parts are "missing", a "number" (7) or a "list" of texts.         *)
(***************************************************************************)
NoException == "none"

\* "\n".join(str(part) for part in parts if part)
JoinParts(parts) ==
    JoinLines(SelectSeq(parts, LAMBDA part : part # <<>>))

\* the loop over mapping.values() from entry j on: the messages so far and the
\* exception that ended the loop, if one did
RECURSIVE MappingLoop(_, _, _)
MappingLoop(entries, j, messages) ==
    IF j > Len(entries) THEN [messages |-> messages, exception |-> NoException]
    ELSE LET node_data == entries[j] IN
         IF node_data.shape = "null_node"
         THEN [messages |-> messages, exception |-> "AttributeError"]
         ELSE IF node_data.shape = "no_message"
         THEN MappingLoop(entries, j + 1, messages)
         ELSE IF ~IsMessageRole(node_data.role)
         THEN MappingLoop(entries, j + 1, messages)
         ELSE IF node_data.parts_shape = "missing"
         THEN MappingLoop(entries, j + 1, messages)
         ELSE IF node_data.parts_shape = "number"
         THEN [messages |-> messages, exception |-> "TypeError"]
         ELSE LET text == JoinParts(node_data.parts) IN
              MappingLoop(entries, j + 1,
                          IF Strip(text) # <<>>
                          THEN Append(messages, Message(node_data.role, Strip(text)))
                          ELSE messages)

\* the exceptions the except clause of the script loop names
Caught == {"JSONDecodeError", "KeyError", "TypeError"}

\* the fallback loop over script_tags from position k on, and the statements
\* after it
RECURSIVE ScriptLoop(_, _, _)
ScriptLoop(script_tags, k, messages) ==
    IF k > Len(script_tags)
    THEN IF messages = <<>>
         THEN ExtractionFailed("Could not extract conversation data from the page")
         ELSE Return(messages)
    ELSE LET script == script_tags[k] IN
         IF script.string = "none"
         THEN ScriptLoop(script_tags, k + 1, messages)
         ELSE IF script.string = "invalid"
         THEN IF "JSONDecodeError" \in Caught
              THEN ScriptLoop(script_tags, k + 1, messages)
              ELSE Raise("JSONDecodeError", [text |-> ""])
         ELSE IF script.data.shape = "number"
         THEN IF "TypeError" \in Caught
              THEN ScriptLoop(script_tags, k + 1, messages)
              ELSE Raise("TypeError", [text |-> ""])
         ELSE IF script.data.shape = "pageprops_list"
         THEN IF "AttributeError" \in Caught
              THEN ScriptLoop(script_tags, k + 1, messages)
              ELSE Raise("AttributeError", [text |-> ""])
         ELSE IF script.data.shape \in {"no_props", "no_data", "no_mapping"}
         THEN ScriptLoop(script_tags, k + 1, messages)
         ELSE LET r == MappingLoop(script.data.mapping, 1, messages) IN
              IF r.exception # NoException
              THEN IF r.exception \in Caught
                   THEN ScriptLoop(script_tags, k + 1, r.messages)
                   ELSE Raise(r.exception, [text |-> ""])
              ELSE IF r.messages # <<>>
                   THEN Return(r.messages)
                   ELSE ScriptLoop(script_tags, k + 1, r.messages)

\* the extractor reading the script tags whatever the primary strategy found
extract_conversation_from_html_both(doc) ==
    ScriptLoop(doc.script_tags, 1, ChatgptLoop(doc.message_divs, 1, <<>>))

extract_conversation_from_html(doc) ==
    LET messages == ChatgptLoop(doc.message_divs, 1, <<>>) IN
    IF messages = <<>>
    THEN ScriptLoop(doc.script_tags, 1, messages)
    ELSE Return(messages)

(***************************************************************************)
(* The documents handed to the extractors.                                 *)
(***************************************************************************)
ClaudeClassSets ==
    { {"!font-user-message"},
      {"standard-markdown"},
      {"font-claude-response", "standard-markdown"},
      {"!font-user-message", "standard-markdown"},
      {"flex"} }

ClaudeStrings ==
    { <<>>,
      << <<"H","i">> >>,
      << <<"H","i">>, <<"3"," ","F","i","l","e","s"," ","H","i","d","d","e","n">> >> }

ClaudeDocs ==
    [strings : ClaudeStrings,
     divs : SeqsUpTo([classes : ClaudeClassSets, md : MdTexts], MaxNodes)]

GrokParents ==
    { None, [classes |-> {"items-end"}], [classes |-> {"items-start"}],
      [classes |-> {"items-end", "items-start"}], [classes |-> {"flex"}] }

GrokMediaContainers ==
    { <<>>, << <<"\n"," ">> >>, << <<"i","m","g">> >> }

GrokDocs ==
    [media_containers : GrokMediaContainers,
     message_bubbles : SeqsUpTo([parent : GrokParents, md : MdTexts], MaxNodes)]

NoData == [shape |-> "none", mapping |-> <<>>]
ScriptOf(string, shape, mapping) ==
    [string |-> string, data |-> [shape |-> shape, mapping |-> mapping]]

Entry(shape, role, parts_shape, parts) ==
    [shape |-> shape, role |-> role, parts_shape |-> parts_shape, parts |-> parts]

MappingEntries ==
    { Entry("null_node", "", "missing", <<>>),
      Entry("no_message", "", "missing", <<>>),
      Entry("message", "user", "list", << <<"H","i">> >>),
      Entry("message", "assistant", "list", << <<"Y","o">>, <<>>, <<"?">> >>),
      Entry("message", "system", "list", << <<"H","i">> >>),
      Entry("message", "user", "list", << <<" ">> >>),
      Entry("message", "user", "missing", <<>>),
      Entry("message", "user", "number", <<>>) }

Scripts ==
    { [string |-> "none", data |-> NoData],
      [string |-> "invalid", data |-> NoData] }
    \cup {ScriptOf("json", shape, <<>>) :
              shape \in {"number", "no_props", "pageprops_list", "no_data", "no_mapping"}}
    \cup {ScriptOf("json", "mapping", m) : m \in SeqsUpTo(MappingEntries, MaxEntries) \ {<<>>}}

\* the scripts that follow another script in a document
LaterScripts ==
    { [string |-> "invalid", data |-> NoData],
      ScriptOf("json", "mapping", <<Entry("message", "assistant", "list", << <<"O","k">> >>)>>),
      ScriptOf("json", "mapping", <<Entry("null_node", "", "missing", <<>>)>>) }

ScriptLists ==
    {<<>>} \cup {<<s>> : s \in Scripts}
           \cup {<<s, t>> : s \in Scripts, t \in LaterScripts}

ChatgptDivs == [role : {"user", "assistant", "system"}, md : MdTexts]

\* message_divs the primary strategy gets no message from
SilentDivs ==
    { <<>>,
      <<[role |-> "system", md |-> <<"H","i">>]>>,
      <<[role |-> "user", md |-> <<>>]>> }

ChatgptDocs ==
    [message_divs : SeqsUpTo(ChatgptDivs, MaxNodes),
     script_tags : {<<>>} \cup {<<t>> : t \in LaterScripts}]
    \cup [message_divs : SilentDivs, script_tags : ScriptLists]

(***************************************************************************)
(* The extractors' specification.                                          *)
(***************************************************************************)
InitExtract ==
    /\ pc = "call"
    /\ ret = None
    /\ NoState
    /\ \/ /\ fn = "extract_claude_conversation"
          /\ args \in [html_content : ClaudeDocs]
       \/ /\ fn = "extract_grok_conversation"
          /\ args \in [html_content : GrokDocs]
       \/ /\ fn = "extract_conversation_from_html"
          /\ args \in [html_content : ChatgptDocs]

ExtractClaude ==
    /\ pc = "call" /\ fn = "extract_claude_conversation"
    /\ ret' = extract_claude_conversation(args.html_content)
    /\ pc' = "done"
    /\ UNCHANGED <<fn, args, heap, frames, world>>

ExtractGrok ==
    /\ pc = "call" /\ fn = "extract_grok_conversation"
    /\ ret' = extract_grok_conversation(args.html_content)
    /\ pc' = "done"
    /\ UNCHANGED <<fn, args, heap, frames, world>>

ExtractChatgpt ==
    /\ pc = "call" /\ fn = "extract_conversation_from_html"
    /\ ret' = extract_conversation_from_html(args.html_content)
    /\ pc' = "done"
    /\ UNCHANGED <<fn, args, heap, frames, world>>

NextExtract == ExtractClaude \/ ExtractGrok \/ ExtractChatgpt

SpecExtract == InitExtract /\ [][NextExtract]_vars

ExtractDone ==
    /\ pc = "done"
    /\ fn \in {"extract_claude_conversation", "extract_grok_conversation",
               "extract_conversation_from_html"}

\* C7: every extractor either returns a conversation with at least one
\* message or fails with the extraction error (the ValueError); none returns an
\* empty conversation and none fails with another error.
C7_NonEmptyOrExtractionFailed ==
    ExtractDone =>
        \/ ret.kind = "return" /\ ret.value # <<>>
        \/ ret.kind = "raise" /\ ret.type = "ValueError"

\* C8: every message an extractor returns has role user or assistant and a
\* content that is not empty; a source node with another role gives no message.
C8_RolesAndContentOfReturned ==
    (ExtractDone /\ ret.kind = "return") =>
        \A k \in DOMAIN ret.value :
            /\ ret.value[k].role \in {"user", "assistant"}
            /\ ret.value[k].content # <<>>

\* C8 witness: the structured-data fallback returning the one user message of a
\* mapping that also holds a system message.
C8_Witness ==
    /\ ExtractDone
    /\ fn = "extract_conversation_from_html"
    /\ Len(args.html_content.script_tags) = 1
    /\ args.html_content.script_tags[1].data.shape = "mapping"
    /\ \E j \in DOMAIN args.html_content.script_tags[1].data.mapping :
           args.html_content.script_tags[1].data.mapping[j].role = "system"
    /\ ret.kind = "return"
    /\ Len(ret.value) = 1
    /\ ret.value[1].role = "user"

\* the attachment evidence of a Claude or Grok document
HasEvidence ==
    IF fn = "extract_claude_conversation"
    THEN ClaudeHasHiddenFiles(args.html_content)
    ELSE GrokHasHiddenAttachments(args.html_content)

\* the cleaned texts of the user candidates of the document, in document order
UserCandidateTexts ==
    LET nodes == IF fn = "extract_claude_conversation"
                 THEN args.html_content.divs
                 ELSE args.html_content.message_bubbles
        isUser(n) == IF fn = "extract_claude_conversation"
                     THEN ClaudeRole(n.classes) = "user"
                     ELSE GrokRole(n.parent) = "user"
        users == SelectSeq(nodes, isUser)
    IN  [k \in DOMAIN users |-> clean_markdown_code_blocks(users[k].md)]

Noted(msg) == StartsWith(msg.content, AttachmentNote)

\* C9: in a call of the Claude or Grok extractor with attachment evidence, the
\* first user message returned is the note, a blank line and the text of the
\* first user candidate, and no other returned message carries the note;
\* without evidence no returned message carries it.
C9_NoteOnFirstUserMessageOnly ==
    (/\ ExtractDone
     /\ fn \in {"extract_claude_conversation", "extract_grok_conversation"}
     /\ ret.kind = "return") =>
        LET m == ret.value
            users == {k \in DOMAIN m : m[k].role = "user"}
            first == CHOOSE k \in users : \A j \in users : k <= j
        IN  IF HasEvidence /\ users # {}
            THEN /\ m[first].content = AttachmentNote \o UserCandidateTexts[1]
                 /\ \A k \in DOMAIN m : k # first => ~Noted(m[k])
            ELSE \A k \in DOMAIN m : ~Noted(m[k])

\* C9 witness: a Claude document with hidden files giving an assistant message
\* and two user messages, the first of them with the note.
C9_Witness ==
    /\ ExtractDone
    /\ fn = "extract_claude_conversation"
    /\ ClaudeHasHiddenFiles(args.html_content)
    /\ ret.kind = "return"
    /\ Len(ret.value) = 3
    /\ ret.value[1].role = "assistant"
    /\ ret.value[2].role = "user" /\ Noted(ret.value[2])
    /\ ret.value[3].role = "user" /\ ~Noted(ret.value[3])

(***************************************************************************)
(* The candidates of a document and the messages they give.  A candidate   *)
(* is [role, text]: the role the platform's rule gives a node ("" for a    *)
(* node that is no message) and the node's normalized content.             *)
(***************************************************************************)
\* the positions of a set, in order
RECURSIVE Ascending(_)
Ascending(S) ==
    IF S = {} THEN <<>>
    ELSE LET least == CHOOSE x \in S : \A y \in S : x <= y
         IN  <<least>> \o Ascending(S \ {least})

\* the first user candidate
IsFirstUser(candidates, k) ==
    /\ candidates[k].role = "user"
    /\ \A j \in 1..(k - 1) : candidates[j].role # "user"

\* the candidates with a role and with normalized content
WithContent(candidates) ==
    Ascending({k \in DOMAIN candidates :
                  candidates[k].role # "" /\ candidates[k].text # <<>>})

\* the candidates with a role that have normalized content or get the note
WithContentOrNote(candidates, has_evidence) ==
    Ascending({k \in DOMAIN candidates :
                  /\ candidates[k].role # ""
                  /\ \/ candidates[k].text # <<>>
                     \/ has_evidence /\ IsFirstUser(candidates, k)})

\* the candidates of a Claude document by the class rule: user with the user
\* marker; assistant without it, with the content marker and without the
\* wrapper marker
ClaudeCandidates(doc) ==
    [k \in DOMAIN doc.divs |->
        [role |-> IF "!font-user-message" \in doc.divs[k].classes THEN "user"
                  ELSE IF /\ "standard-markdown" \in doc.divs[k].classes
                          /\ "font-claude-response" \notin doc.divs[k].classes
                       THEN "assistant"
                       ELSE "",
         text |-> clean_markdown_code_blocks(doc.divs[k].md)]]

\* the candidates of a Grok document by the class set of the bubble's parent:
\* end-aligned user, start-aligned assistant, neither or no parent none
GrokCandidates(doc) ==
    [k \in DOMAIN doc.message_bubbles |->
        LET parent == doc.message_bubbles[k].parent IN
        [role |-> IF parent = None THEN ""
                  ELSE IF "items-end" \in parent.classes THEN "user"
                  ELSE IF "items-start" \in parent.classes THEN "assistant"
                  ELSE "",
         text |-> clean_markdown_code_blocks(doc.message_bubbles[k].md)]]

\* the candidates of a ChatGPT document's primary strategy
ChatgptCandidates(doc) ==
    [k \in DOMAIN doc.message_divs |->
        [role |-> IF doc.message_divs[k].role \in {"user", "assistant"}
                  THEN doc.message_divs[k].role ELSE "",
         text |-> clean_markdown_code_blocks(doc.message_divs[k].md)]]

Candidates ==
    CASE fn = "extract_claude_conversation" -> ClaudeCandidates(args.html_content)
      [] fn = "extract_grok_conversation" -> GrokCandidates(args.html_content)
      [] fn = "extract_conversation_from_html" -> ChatgptCandidates(args.html_content)

\* C14 as claimed: in the three extractors a candidate whose normalized content
\* is empty is dropped: the messages returned are as many as the candidates
\* with a role and content, and none of them is the attachment note alone; so
\* too when the candidate is the first user candidate of a Claude or Grok
\* document with attachment evidence.
C14_EmptyCandidatesDropped ==
    (/\ ExtractDone
     /\ ret.kind = "return"
     /\ fn = "extract_conversation_from_html" => WithContent(Candidates) # <<>>) =>
        /\ Len(ret.value) = Len(WithContent(Candidates))
        /\ \A i \in DOMAIN ret.value : ret.value[i].content # AttachmentNote

\* the messages, in order, are those of the candidates at `kept`
MessagesOfCandidates(messages, candidates, kept) ==
    /\ Len(messages) = Len(kept)
    /\ \A i \in DOMAIN kept :
          /\ messages[i].role = candidates[kept[i]].role
          /\ IsSuffix(candidates[kept[i]].text, messages[i].content)

\* C15: the Grok extractor takes the role of a bubble from the class set of
\* the bubble's immediate parent alone: items-end gives user, items-start
\* gives assistant, a parent with neither class or no parent discards the
\* bubble; the messages emitted keep the document order of their bubbles.
C15_GrokRoleFromParent ==
    (ExtractDone /\ fn = "extract_grok_conversation") =>
        LET candidates == GrokCandidates(args.html_content)
            kept == WithContentOrNote(candidates,
                                      GrokHasHiddenAttachments(args.html_content))
        IN  IF kept = <<>>
            THEN ret.kind = "raise"
            ELSE /\ ret.kind = "return"
                 /\ MessagesOfCandidates(ret.value, candidates, kept)

\* C15 witness: three bubbles whose parents are start-aligned, absent or with
\* neither class, and end-aligned give an assistant message and then a user message.
C15_Witness ==
    /\ ExtractDone
    /\ fn = "extract_grok_conversation"
    /\ Len(args.html_content.message_bubbles) = 3
    /\ args.html_content.message_bubbles[1].parent = [classes |-> {"items-start"}]
    /\ args.html_content.message_bubbles[2].parent \in {None, [classes |-> {"flex"}]}
    /\ args.html_content.message_bubbles[2].md # <<>>
    /\ args.html_content.message_bubbles[3].parent = [classes |-> {"items-end"}]
    /\ ret.kind = "return"
    /\ Len(ret.value) = 2
    /\ ret.value[1].role = "assistant" /\ ret.value[2].role = "user"

\* C16: the Claude extractor makes a node a user candidate exactly when its
\* class set has the user marker, and an assistant candidate exactly when its
\* class set lacks the user marker, has the content marker and lacks the
\* wrapper marker; a wrapper node and its content-marker child give one
\* assistant message, the child's.
C16_ClaudeRoleFromClasses ==
    (ExtractDone /\ fn = "extract_claude_conversation") =>
        LET candidates == ClaudeCandidates(args.html_content)
            kept == WithContentOrNote(candidates,
                                      ClaudeHasHiddenFiles(args.html_content))
        IN  IF kept = <<>>
            THEN ret.kind = "raise"
            ELSE /\ ret.kind = "return"
                 /\ MessagesOfCandidates(ret.value, candidates, kept)

\* C16 witness: a node with the user marker and the content marker, then a
\* wrapper node and its content-marker child, both with text: one user message
\* and one assistant message, the child's.
C16_Witness ==
    /\ ExtractDone
    /\ fn = "extract_claude_conversation"
    /\ Len(args.html_content.divs) = 3
    /\ args.html_content.divs[1].classes = {"!font-user-message", "standard-markdown"}
    /\ args.html_content.divs[2] =
           [classes |-> {"font-claude-response", "standard-markdown"},
            md |-> <<"H","i">>]
    /\ args.html_content.divs[3].classes = {"standard-markdown"}
    /\ args.html_content.divs[3].md # <<"H","i">>
    /\ ret.kind = "return"
    /\ Len(ret.value) = 2
    /\ ret.value[1].role = "user"
    /\ ret.value[2] =
           Message("assistant",
                   clean_markdown_code_blocks(args.html_content.divs[3].md))

\* C17: the ChatGPT extractor reads the structured-data blocks only when the
\* primary strategy gave no message: whenever the primary strategy gives one
\* message or more, the conversation returned is the primary strategy's
\* messages in document order, with nothing from a structured-data block.
C17_FallbackOnlyWhenPrimaryEmpty ==
    (ExtractDone /\ fn = "extract_conversation_from_html") =>
        LET candidates == ChatgptCandidates(args.html_content)
            kept == WithContent(candidates)
        IN  kept # <<>> =>
                ret = Return([i \in DOMAIN kept |->
                                 Message(candidates[kept[i]].role,
                                         candidates[kept[i]].text)])

\* C17 witness: a document whose message nodes give two messages and whose
\* script tag holds a mapping with a message of its own: the two are returned.
C17_Witness ==
    /\ ExtractDone
    /\ fn = "extract_conversation_from_html"
    /\ Len(args.html_content.script_tags) = 1
    /\ args.html_content.script_tags[1].data.shape = "mapping"
    /\ args.html_content.script_tags[1].data.mapping[1].shape = "message"
    /\ Len(WithContent(ChatgptCandidates(args.html_content))) = 2
    /\ ret.kind = "return"
    /\ Len(ret.value) = 2

(***************************************************************************)
(* What the failures and the results of filter_last_turns carry.           *)
(***************************************************************************)
\* the error value names the requested and the available number of turns
CarriesCounts(error, requested, available) ==
    /\ {"n_turns", "total_turns"} \subseteq DOMAIN error.msg
    /\ error.msg.n_turns = requested
    /\ error.msg.total_turns = available

\* C13 as claimed: every failure of filter_last_turns, for n_turns <= 0 and
\* for n_turns > count_turns(messages), carries the requested and the available
\* number of turns in its error value.
C13_EveryFailureCarriesCounts ==
    (FilterDone /\ ret.kind = "raise") =>
        CarriesCounts(ret, args.n_turns, Cardinality(UserPositions(args.messages)))

\* C13 amended: the failure for n_turns > count_turns(messages) carries the
\* requested and the available number of turns; the failure for n_turns <= 0
\* carries the fixed text "Number of turns must be positive" and no count.
C13_TooManyCarriesCounts ==
    (FilterDone /\ ret.kind = "raise") =>
        /\ ret.type = "AssertionError"
        /\ args.n_turns > 0 =>
               CarriesCounts(ret, args.n_turns,
                             Cardinality(UserPositions(args.messages)))
        /\ args.n_turns <= 0 =>
               ret.msg = [text |-> "Number of turns must be positive"]

\* C13 witness: three turns asked of a conversation of two, and the failure
\* names the 3 and the 2.
C13_Witness ==
    /\ FilterDone
    /\ args.n_turns = 3
    /\ Cardinality(UserPositions(args.messages)) = 2
    /\ ret.kind = "raise"
    /\ ret.msg.n_turns = 3 /\ ret.msg.total_turns = 2

\* C19: for 1 <= n_turns <= count_turns(messages), the conversation that
\* filter_last_turns returns counts n_turns turns, has exactly n_turns user
\* messages, and is the end of what filter_last_turns returns for n_turns + 1
\* whenever n_turns + 1 <= count_turns(messages).
C19_FilteredCountsNTurns ==
    (FilterDone /\ 1 <= args.n_turns /\ args.n_turns <= count_turns(args.messages)) =>
        /\ ret.kind = "return"
        /\ count_turns(ret.value) = args.n_turns
        /\ Cardinality(UserPositions(ret.value)) = args.n_turns
        /\ args.n_turns + 1 <= count_turns(args.messages) =>
               LET more == filter_last_turns(args.messages, args.n_turns + 1)
               IN  /\ more.kind = "return"
                   /\ IsSuffix(ret.value, more.value)
                   /\ Len(more.value) > Len(ret.value)

\* C19 witness: the last turn of [user, assistant, user, assistant] asked for,
\* with one more turn available: the last two messages of the four.
C19_Witness ==
    /\ FilterDone
    /\ args.n_turns = 1
    /\ count_turns(args.messages) = 2
    /\ Len(args.messages) = 4
    /\ args.messages[1].role = "user" /\ args.messages[2].role = "assistant"
    /\ ret = Return(SubSeq(args.messages, 3, 4))
    /\ count_turns(ret.value) = 1

(***************************************************************************)
(* The text generate_xml_text writes, line by line.                        *)
(***************************************************************************)
\* the j-th item of the list of lines the claim describes for a conversation:
\* the root open line, five items for each message, the root close line
DescribedLine(messages, j) ==
    LET n == Len(messages)
        i == ((j - 2) \div 5) + 1      \* the message the item belongs to
        part == (j - 2) % 5            \* the place of the item in its block
    IN  IF j = 1 THEN <<"<","c","o","n","v","e","r","s","a","t","i","o","n",">">>
        ELSE IF j = 5 * n + 2 THEN <<"<","/","c","o","n","v","e","r","s","a","t","i","o","n",">">>
        ELSE CASE part = 0 ->
                    <<" "," ","<","m","e","s","s","a","g","e"," ","i","n","d","e","x","=","\"">> \o IntStr(i)
                    \o <<"\""," ","r","o","l","e","=","\"">>
                    \o (IF messages[i].role = "user" THEN <<"u","s","e","r">>
                        ELSE <<"a","s","s","i","s","t","a","n","t">>)
                    \o <<"\"",">">>
               [] part = 1 -> <<" "," "," "," ","<","c","o","n","t","e","n","t",">">>
               [] part = 2 -> <<" "," "," "," "," "," ">> \o messages[i].content
               [] part = 3 -> <<" "," "," "," ","<","/","c","o","n","t","e","n","t",">">>
               [] part = 4 -> <<" "," ","<","/","m","e","s","s","a","g","e",">">>

DescribedText(messages) ==
    JoinLines([j \in 1..(5 * Len(messages) + 2) |-> DescribedLine(messages, j)])

\* C18: generate_xml_text returns the line <conversation>, then for each
\* message in order the five items open tag with index and role, <content> at
\* four spaces, the content as it is after six spaces, </content>, </message>,
\* then </conversation>, joined by newlines; for the empty conversation the two
\* root lines alone.
C18_OutputIsTheDescribedText ==
    XmlDone =>
        /\ ret = Return(DescribedText(args.messages))
        /\ args.messages = <<>> =>
               ret.value = <<"<","c","o","n","v","e","r","s","a","t","i","o","n",">","\n",
                             "<","/","c","o","n","v","e","r","s","a","t","i","o","n",">">>

\* C18 witness: a conversation of an assistant message and a user message whose
\* content holds markup and a newline, written with that content as it is.
C18_Witness ==
    /\ XmlDone
    /\ Len(args.messages) = 2
    /\ args.messages[1].role = "assistant"
    /\ args.messages[2] = Message("user", MarkupContent)
    /\ Contains(ret.value, <<" "," "," "," "," "," ">> \o MarkupContent \o <<"\n">>)
    /\ Len(SplitLines(ret.value)) = 13

(***************************************************************************)
(* The structured-data fallback of the ChatGPT extractor, block by block.  *)
(***************************************************************************)
\* the entry gives a message: a user or assistant role and parts with text
GivesMessage(entry) ==
    /\ entry.shape = "message"
    /\ entry.role \in {"user", "assistant"}
    /\ entry.parts_shape = "list"
    /\ Strip(JoinParts(entry.parts)) # <<>>

\* the entry is malformed: reading it raises
Malformed(entry) ==
    \/ entry.shape = "null_node"
    \/ /\ entry.shape = "message"
       /\ entry.role \in {"user", "assistant"}
       /\ entry.parts_shape = "number"

\* the messages of the entries of one block, in order
BlockMessages(script) ==
    LET given == SelectSeq(script.data.mapping, GivesMessage)
    IN  [i \in DOMAIN given |->
            Message(given[i].role, Strip(JoinParts(given[i].parts)))]

\* the block has a mapping that is traversed to its end
Traversed(script) ==
    /\ script.string = "json"
    /\ script.data.shape = "mapping"
    /\ \A j \in DOMAIN script.data.mapping : ~Malformed(script.data.mapping[j])

\* C21 as claimed: when the ChatGPT extractor falls back to the script data
\* blocks, the conversation it returns is the messages of exactly one block,
\* one traversed to its end: the messages collected from a block whose
\* traversal a handled error abandoned are in no conversation returned; and a
\* malformed entry surfaces as no error but ExtractionFailed.
C21_FallbackFromOneBlock ==
    (/\ ExtractDone
     /\ fn = "extract_conversation_from_html"
     /\ WithContent(ChatgptCandidates(args.html_content)) = <<>>) =>
        LET script_tags == args.html_content.script_tags IN
        /\ ret.kind = "raise" => ret.type = "ValueError"
        /\ ret.kind = "return" =>
               \E k \in DOMAIN script_tags :
                   /\ Traversed(script_tags[k])
                   /\ ret.value = BlockMessages(script_tags[k])

\* the part of C21 on the conversations returned, the errors left aside
C21_ReturnedFromOneBlock ==
    (/\ ExtractDone
     /\ fn = "extract_conversation_from_html"
     /\ WithContent(ChatgptCandidates(args.html_content)) = <<>>
     /\ ret.kind = "return") =>
        \E k \in DOMAIN args.html_content.script_tags :
            /\ Traversed(args.html_content.script_tags[k])
            /\ ret.value = BlockMessages(args.html_content.script_tags[k])

(***************************************************************************)
(* The calls on list objects.  heap[r] is the list the reference r names;  *)
(* the caller holds its conversation under args.messages, the functions    *)
(* read it through that reference, and filter_last_turns hands back the    *)
(* reference of the list its slice expression makes.                       *)
(***************************************************************************)
\* messages[start_idx:] handing back messages itself when the slice is all of it
NewSliceAliased(objects, r, start_idx) ==
    IF start_idx = 0
    THEN [heap |-> objects, ref |-> r]
    ELSE [heap |-> Append(objects, SliceFrom(objects[r], start_idx)),
          ref |-> Len(objects) + 1]

\* messages[start_idx:]: a new list object holding the messages from start_idx on
NewSlice(objects, r, start_idx) ==
    [heap |-> Append(objects, SliceFrom(objects[r], start_idx)),
     ref |-> Len(objects) + 1]

\* filter_last_turns on the list object r: the asserts, the backward loop, the
\* slice; a failed assert makes no list
filter_last_turns_on(objects, r, n_turns) ==
    LET messages == objects[r]
        result == filter_last_turns(messages, n_turns)
    IN  IF result.kind = "raise"
        THEN [heap |-> objects, ret |-> result]
        ELSE LET slice == NewSlice(objects, r,
                                   FindStart(messages, Len(messages) - 1, 0, n_turns))
             IN  [heap |-> slice.heap, ret |-> Return(slice.ref)]

\* the caller's conversation is list object 1
InitObjects ==
    /\ pc = "call"
    /\ ret = None
    /\ frames = <<>> /\ world = <<>>
    /\ heap \in {<<c>> : c \in Conversations}
    /\ \/ /\ fn \in {"count_turns", "generate_xml_text"}
          /\ args = [messages |-> 1]
       \/ /\ fn = "filter_last_turns"
          /\ args \in [messages : {1}, n_turns : TurnArgs]

\* count_turns reads the list and returns an int
CountTurnsOn ==
    /\ pc = "call" /\ fn = "count_turns"
    /\ ret' = Return(count_turns(heap[args.messages]))
    /\ pc' = "done"
    /\ UNCHANGED <<fn, args, heap, frames, world>>

\* generate_xml_text reads the list and returns a str built in its own list
GenerateXmlTextOn ==
    /\ pc = "call" /\ fn = "generate_xml_text"
    /\ ret' = Return(generate_xml_text(heap[args.messages]))
    /\ pc' = "done"
    /\ UNCHANGED <<fn, args, heap, frames, world>>

FilterLastTurnsOn ==
    /\ pc = "call" /\ fn = "filter_last_turns"
    /\ LET out == filter_last_turns_on(heap, args.messages, args.n_turns)
       IN  heap' = out.heap /\ ret' = out.ret
    /\ pc' = "done"
    /\ UNCHANGED <<fn, args, frames, world>>

\* the caller changes the length of the list filter_last_turns returned: it
\* appends a message to it or pops its last message
ChangeSlice ==
    /\ pc = "done" /\ fn = "filter_last_turns" /\ ret.kind = "return"
    /\ \/ \E m \in {Message(r, <<"H","i">>) : r \in Roles} :
              heap' = [heap EXCEPT ![ret.value] = Append(@, m)]
       \/ /\ heap[ret.value] # <<>>
          /\ heap' = [heap EXCEPT ![ret.value] = SubSeq(@, 1, Len(@) - 1)]
    /\ pc' = "changed"
    /\ UNCHANGED <<fn, args, ret, frames, world>>

NextObjects == CountTurnsOn \/ GenerateXmlTextOn \/ FilterLastTurnsOn \/ ChangeSlice

SpecObjects == InitObjects /\ [][NextObjects]_vars

\* C11: count_turns, filter_last_turns and generate_xml_text leave the
\* conversation passed to them as it was (same length, same messages, same
\* order) whether the call returns or raises, and a later change of the length
\* of the list filter_last_turns returned leaves that conversation as it was:
\* no step of a call or of the caller on the slice changes the caller's list.
C11_ConversationLeftUnchanged ==
    [][/\ args' = args
       /\ heap'[args.messages] = heap[args.messages]
       /\ (pc = "call" /\ ret'.kind = "return" /\ fn = "filter_last_turns")
              => ret'.value # args.messages]_vars

\* C11 witness: all the turns of a conversation that starts with a user message
\* were asked for, the slice returned was made one message longer, and the
\* caller's conversation still has the messages it had.
C11_Witness ==
    /\ pc = "changed"
    /\ fn = "filter_last_turns"
    /\ Len(heap[args.messages]) = 2
    /\ heap[args.messages][1].role = "user"
    /\ args.n_turns = count_turns(heap[args.messages])
    /\ Len(heap[ret.value]) = 3
    /\ SubSeq(heap[ret.value], 1, 2) = heap[args.messages]

(***************************************************************************)
(* Two calls of the Claude and Grok extractors that run statement by       *)
(* statement and interleave: fn, args, pc and ret hold one value for each  *)
(* call and frames[c] holds the local variables of call c.  A call that    *)
(* ends before the other begins is one of the interleavings.               *)
(***************************************************************************)
MaxCallNodes == 2   \* message nodes in a document of an interleaved call

Calls == {1, 2}

\* the frame that holds the flag of call c, were the flag a module global
FlagFrameShared(c) == 1

\* the frame that holds added_file_note / added_attachment_note of call c:
\* the flag is a local variable of the call
FlagFrame(c) == c

BlankFrame ==
    [nodes |-> <<>>, has_hidden |-> FALSE, k |-> 0, messages |-> <<>>,
     added_note |-> FALSE]

CallClaudeDocs ==
    [strings : { <<>>, << <<"3"," ","F","i","l","e","s"," ","H","i","d","d","e","n">> >> },
     divs : SeqsUpTo([classes : { {"!font-user-message"}, {"standard-markdown"} },
                      md : { <<"H","i">> }], MaxCallNodes)]

CallGrokDocs ==
    [media_containers : { <<>>, << <<"\n"," ">> >> },
     message_bubbles :
         SeqsUpTo([parent : { [classes |-> {"items-end"}],
                              [classes |-> {"items-start"}] },
                   md : { <<"H","i">> }], MaxCallNodes)]

InitCalls ==
    /\ fn \in [Calls -> {"extract_claude_conversation", "extract_grok_conversation"}]
    /\ args \in [Calls -> [html_content : CallClaudeDocs \cup CallGrokDocs]]
    /\ \A c \in Calls :
          args[c].html_content \in
              (IF fn[c] = "extract_claude_conversation"
               THEN CallClaudeDocs ELSE CallGrokDocs)
    /\ pc = [c \in Calls |-> "call"]
    /\ ret = [c \in Calls |-> None]
    /\ frames = [c \in Calls |-> BlankFrame]
    /\ heap = <<>> /\ world = <<>>

\* the statements before the loop: the evidence, the nodes, the flag set False
ClaudeBegin(c) ==
    /\ pc[c] = "call" /\ fn[c] = "extract_claude_conversation"
    /\ LET doc == args[c].html_content
           own == [frames EXCEPT ![c].nodes = ClaudeContentDivs(doc.divs, 1),
                                 ![c].has_hidden = ClaudeHasHiddenFiles(doc),
                                 ![c].k = 1,
                                 ![c].messages = <<>>]
       IN  frames' = [own EXCEPT ![FlagFrame(c)].added_note = FALSE]
    /\ pc' = [pc EXCEPT ![c] = "loop"]
    /\ UNCHANGED <<fn, args, ret, heap, world>>

\* one pass of the loop over all_content_divs
ClaudeIterate(c) ==
    /\ pc[c] = "loop" /\ fn[c] = "extract_claude_conversation"
    /\ frames[c].k <= Len(frames[c].nodes)
    /\ LET node == frames[c].nodes[frames[c].k]
           cleaned == clean_markdown_code_blocks(node.md)
           adds == ClaudeAddsNote(frames[c].has_hidden, node.role,
                                  frames[FlagFrame(c)].added_note)
           markdown_text == IF adds THEN AttachmentNote \o cleaned ELSE cleaned
           flagged == IF adds
                      THEN [frames EXCEPT ![FlagFrame(c)].added_note = TRUE]
                      ELSE frames
       IN  frames' = [flagged EXCEPT
                         ![c].messages =
                             IF markdown_text # <<>>
                             THEN Append(@, Message(node.role, markdown_text))
                             ELSE @,
                         ![c].k = @ + 1]
    /\ UNCHANGED <<fn, args, pc, ret, heap, world>>

\* the statements after the loop
ClaudeFinish(c) ==
    /\ pc[c] = "loop" /\ fn[c] = "extract_claude_conversation"
    /\ frames[c].k > Len(frames[c].nodes)
    /\ ret' = [ret EXCEPT ![c] =
                  IF frames[c].messages = <<>>
                  THEN ExtractionFailed("Could not extract conversation data from Claude page")
                  ELSE Return(frames[c].messages)]
    /\ pc' = [pc EXCEPT ![c] = "done"]
    /\ UNCHANGED <<fn, args, frames, heap, world>>

GrokBegin(c) ==
    /\ pc[c] = "call" /\ fn[c] = "extract_grok_conversation"
    /\ LET doc == args[c].html_content
           own == [frames EXCEPT ![c].nodes = doc.message_bubbles,
                                 ![c].has_hidden = GrokHasHiddenAttachments(doc),
                                 ![c].k = 1,
                                 ![c].messages = <<>>]
       IN  frames' = [own EXCEPT ![FlagFrame(c)].added_note = FALSE]
    /\ pc' = [pc EXCEPT ![c] = "loop"]
    /\ UNCHANGED <<fn, args, ret, heap, world>>

\* one pass of the loop over message_bubbles
GrokIterate(c) ==
    /\ pc[c] = "loop" /\ fn[c] = "extract_grok_conversation"
    /\ frames[c].k <= Len(frames[c].nodes)
    /\ LET bubble == frames[c].nodes[frames[c].k]
           role == GrokRole(bubble.parent)
           cleaned == clean_markdown_code_blocks(bubble.md)
           adds == GrokAddsNote(frames[c].has_hidden, role,
                                frames[FlagFrame(c)].added_note)
           markdown_text == IF adds THEN AttachmentNote \o cleaned ELSE cleaned
           flagged == IF adds
                      THEN [frames EXCEPT ![FlagFrame(c)].added_note = TRUE]
                      ELSE frames
       IN  IF role = ""
           THEN frames' = [frames EXCEPT ![c].k = @ + 1]
           ELSE frames' = [flagged EXCEPT
                              ![c].messages =
                                  IF markdown_text # <<>>
                                  THEN Append(@, Message(role, markdown_text))
                                  ELSE @,
                              ![c].k = @ + 1]
    /\ UNCHANGED <<fn, args, pc, ret, heap, world>>

GrokFinish(c) ==
    /\ pc[c] = "loop" /\ fn[c] = "extract_grok_conversation"
    /\ frames[c].k > Len(frames[c].nodes)
    /\ ret' = [ret EXCEPT ![c] =
                  IF frames[c].messages = <<>>
                  THEN ExtractionFailed("Could not extract conversation data from Grok page")
                  ELSE Return(frames[c].messages)]
    /\ pc' = [pc EXCEPT ![c] = "done"]
    /\ UNCHANGED <<fn, args, frames, heap, world>>

NextCalls ==
    \E c \in Calls :
        \/ ClaudeBegin(c) \/ ClaudeIterate(c) \/ ClaudeFinish(c)
        \/ GrokBegin(c) \/ GrokIterate(c) \/ GrokFinish(c)

SpecCalls == InitCalls /\ [][NextCalls]_vars

\* the document of call c has attachment evidence and a user node
CallExpectsNote(c) ==
    IF fn[c] = "extract_claude_conversation"
    THEN /\ ClaudeHasHiddenFiles(args[c].html_content)
         /\ \E k \in DOMAIN args[c].html_content.divs :
                "!font-user-message" \in args[c].html_content.divs[k].classes
    ELSE /\ GrokHasHiddenAttachments(args[c].html_content)
         /\ \E k \in DOMAIN args[c].html_content.message_bubbles :
                "items-end" \in args[c].html_content.message_bubbles[k].parent.classes

\* the messages of the result of call c that carry the note
NotedIn(c) == {i \in DOMAIN ret[c].value : Noted(ret[c].value[i])}

\* C12: extraction calls are independent and deterministic: two calls of the
\* same extractor on the same document, one after the other or interleaved
\* with each other, return equal conversations, and whether the result of a
\* call carries the attachment note depends on that call's document alone:
\* the flag one call sets neither suppresses nor adds a note in the other.
C12_CallsIndependent ==
    /\ (/\ pc[1] = "done" /\ pc[2] = "done"
        /\ fn[1] = fn[2] /\ args[1] = args[2]) => ret[1] = ret[2]
    /\ \A c \in Calls :
          (pc[c] = "done" /\ ret[c].kind = "return") =>
              Cardinality(NotedIn(c)) = (IF CallExpectsNote(c) THEN 1 ELSE 0)

\* C12 witness: two calls of the Claude extractor on the same document with
\* hidden files and two user nodes have both ended, each with the note on its
\* first message only.
C12_Witness ==
    /\ pc[1] = "done" /\ pc[2] = "done"
    /\ fn[1] = "extract_claude_conversation" /\ fn[2] = fn[1]
    /\ args[1] = args[2]
    /\ ClaudeHasHiddenFiles(args[1].html_content)
    /\ ret[1].kind = "return"
    /\ Len(ret[1].value) = 2
    /\ ret[1].value[2].role = "user"
    /\ NotedIn(1) = {1} /\ NotedIn(2) = {1}
    /\ ret[1] = ret[2]

(***************************************************************************)
(* main, step by step: args holds the parsed command line, frames the      *)
(* locals of main and of build_html, world what fetch_conversation will    *)
(* give (its result or its exception), the files written and the log of    *)
(* the file writes and of the calls of filter_last_turns.                  *)
(***************************************************************************)
MaxUsers == 11   \* user messages in a conversation main fetches

Min(a, b) == IF a < b THEN a ELSE b

\* the loop of build_html without the limit of ten turn options
TurnOptionsStopUnlimited(total_turns) == total_turns + 1

\* the stop of range(1, min(total_turns + 1, 11))
TurnOptionsStop(total_turns) == Min(total_turns + 1, 11)

\* the conversations fetched: user messages alone, up to MaxUsers of them, and
\* conversations with assistant messages before and after the user messages
MainConversations ==
    { [i \in 1..k |-> Message("user", <<"H","i">>)] : k \in 1..MaxUsers }
    \cup { <<Message("assistant", <<"H","i">>)>>,
           <<Message("user", <<"H","i">>), Message("assistant", <<"H","i">>)>>,
           <<Message("assistant", <<"H","i">>), Message("user", <<"H","i">>),
             Message("assistant", <<"H","i">>), Message("user", <<"H","i">>)>> }

\* a URL detect_platform accepts and one it rejects
MainUrls ==
    { <<"h","t","t","p","s",":","/","/","c","l","a","u","d","e",".","a","i",
        "/","s","h","a","r","e","/","a","b","1","2">>,
      <<"h","t","t","p","s",":","/","/","e","x","a","m","p","l","e",".","c","o","m",
        "/","c","/","a","b","1","2">> }

\* what fetch_conversation gives main: the messages or one of its exceptions
FetchOutcomes ==
    {Return(c) : c \in MainConversations}
    \cup {Raise("ValueError", [text |-> ""]), Raise("PlaywrightTimeout", [text |-> ""])}

MainFrame ==
    [messages |-> <<>>, messages_for_xml |-> <<>>, total_turns |-> 0, n |-> 0]

\* an option that was given on the command line, with its value
Given(v) == [kind |-> "given", value |-> v]

\* --save-xml is None when absent and a path ("" for the default path) when
\* given; --last-turns is None when absent and an int when given
InitMain ==
    /\ fn = "main"
    /\ args \in [url : MainUrls,
                 save_xml : {None, Given(<<>>)},
                 last_turns : {None} \cup {Given(n) : n \in (0 - 1)..(MaxUsers + 1)},
                 no_open : BOOLEAN]
    /\ pc = "validate"
    /\ ret = None
    /\ heap = <<>>
    /\ frames = MainFrame
    /\ world \in [fetched : FetchOutcomes, files : {{}}, log : {<<>>}]

Exit(code) == ret' = Return(code) /\ pc' = "exit"

\* the argument checks
MainValidate ==
    /\ fn = "main" /\ pc = "validate"
    /\ IF args.last_turns # None /\ args.save_xml = None
       THEN Exit(1)
       ELSE IF args.last_turns # None /\ args.last_turns.value <= 0
       THEN Exit(1)
       ELSE pc' = "detect" /\ ret' = ret
    /\ UNCHANGED <<fn, args, heap, frames, world>>

\* detect_platform(args.url) in its try
MainDetect ==
    /\ fn = "main" /\ pc = "detect"
    /\ IF detect_platform(args.url).kind = "raise"
       THEN Exit(1)
       ELSE pc' = "fetch" /\ ret' = ret
    /\ UNCHANGED <<fn, args, heap, frames, world>>

\* fetch_conversation(args.url): its exceptions reach the except clauses
MainFetch ==
    /\ fn = "main" /\ pc = "fetch"
    /\ IF world.fetched.kind = "raise"
       THEN Exit(1) /\ frames' = frames
       ELSE /\ frames' = [frames EXCEPT !.messages = world.fetched.value]
            /\ pc' = "save_xml" /\ ret' = ret
    /\ UNCHANGED <<fn, args, heap, world>>

FilterCall(caller, n_turns, result) ==
    [op |-> "filter_last_turns", caller |-> caller, n_turns |-> n_turns,
     kind |-> result.kind]

\* the if of --save-xml: the turn filter, the XML text, the file written; a
\* write that fails raises into the last except clause
MainSaveXml ==
    /\ fn = "main" /\ pc = "save_xml"
    /\ IF args.save_xml = None
       THEN pc' = "build_html" /\ UNCHANGED <<ret, frames, world>>
       ELSE IF args.last_turns = None
       THEN \E written \in BOOLEAN :
               /\ frames' = [frames EXCEPT !.messages_for_xml = frames.messages]
               /\ IF written
                  THEN /\ world' = [world EXCEPT
                                       !.files = @ \cup {"xml"},
                                       !.log = Append(@, [op |-> "write_text", file |-> "xml",
                                                          content |-> generate_xml_text(frames.messages)])]
                       /\ pc' = "build_html" /\ ret' = ret
                  ELSE Exit(1) /\ world' = world
       ELSE LET total_turns == count_turns(frames.messages)
                result == filter_last_turns(frames.messages, args.last_turns.value)
                called == Append(world.log, FilterCall("main", args.last_turns.value, result))
            IN  IF args.last_turns.value > total_turns
                THEN Exit(1) /\ UNCHANGED <<frames, world>>
                ELSE IF result.kind = "raise"
                THEN /\ Exit(1)
                     /\ frames' = [frames EXCEPT !.total_turns = total_turns]
                     /\ world' = [world EXCEPT !.log = called]
                ELSE \E written \in BOOLEAN :
                        /\ frames' = [frames EXCEPT !.total_turns = total_turns,
                                                    !.messages_for_xml = result.value]
                        /\ IF written
                           THEN /\ world' = [world EXCEPT
                                                !.files = @ \cup {"xml"},
                                                !.log = Append(called,
                                                               [op |-> "write_text", file |-> "xml",
                                                                content |-> generate_xml_text(result.value)])]
                                /\ pc' = "build_html" /\ ret' = ret
                           ELSE Exit(1) /\ world' = [world EXCEPT !.log = called]
    /\ UNCHANGED <<fn, args, heap>>

\* build_html up to its loop: the XML of all the messages, the turns counted
BuildHtmlBegin ==
    /\ fn = "main" /\ pc = "build_html"
    /\ frames' = [frames EXCEPT !.total_turns = count_turns(frames.messages),
                                !.n = 1]
    /\ pc' = "turn_options"
    /\ UNCHANGED <<fn, args, ret, heap, world>>

\* one pass of the loop over the turn options; an exception of
\* filter_last_turns leaves build_html and reaches main's last except clause
BuildHtmlIterate ==
    /\ fn = "main" /\ pc = "turn_options"
    /\ frames.n < TurnOptionsStop(frames.total_turns)
    /\ LET result == filter_last_turns(frames.messages, frames.n)
       IN  /\ world' = [world EXCEPT
                           !.log = Append(@, FilterCall("build_html", frames.n, result))]
           /\ IF result.kind = "raise"
              THEN Exit(1) /\ frames' = frames
              ELSE /\ frames' = [frames EXCEPT !.n = @ + 1]
                   /\ pc' = pc /\ ret' = ret
    /\ UNCHANGED <<fn, args, heap>>

\* the loop ended: the page is built and written, opened and removed unless
\* --no-open; a removal that fails is ignored
MainWriteHtml ==
    /\ fn = "main" /\ pc = "turn_options"
    /\ ~(frames.n < TurnOptionsStop(frames.total_turns))
    /\ \E written \in BOOLEAN, removed \in BOOLEAN :
          IF ~written
          THEN Exit(1) /\ world' = world
          ELSE /\ Exit(0)
               /\ world' = [world EXCEPT
                               !.files = IF ~args.no_open /\ removed
                                         THEN @ \ {"html"} ELSE @ \cup {"html"},
                               !.log = Append(@, [op |-> "write_text", file |-> "html",
                                                  content |-> <<>>])]
    /\ UNCHANGED <<fn, args, heap, frames>>

NextMain ==
    \/ MainValidate \/ MainDetect \/ MainFetch \/ MainSaveXml
    \/ BuildHtmlBegin \/ BuildHtmlIterate \/ MainWriteHtml

SpecMain == InitMain /\ [][NextMain]_vars

\* the calls of filter_last_turns made so far
FilterCalls == {i \in DOMAIN world.log : world.log[i].op = "filter_last_turns"}

\* the file writes made so far
Writes == {i \in DOMAIN world.log : world.log[i].op = "write_text"}

\* --last-turns N was given with N <= 0, or without --save-xml, or with N
\* greater than the turns of the conversation fetched
LastTurnsRejected ==
    /\ args.last_turns # None
    /\ \/ args.last_turns.value <= 0
       \/ args.save_xml = None
       \/ /\ world.fetched.kind = "return"
          /\ args.last_turns.value > Cardinality(UserPositions(world.fetched.value))

\* C20: the callers never meet the precondition failure of filter_last_turns:
\* build_html calls it only with n in 1..min(count_turns(messages), 10), main
\* only with an N it has checked, every call returns; and main, given
\* --last-turns N with N <= 0, without --save-xml or with N greater than
\* count_turns of the fetched conversation, writes no XML and no HTML file and
\* ends with exit code 1.
C20_CallersKeepThePrecondition ==
    fn = "main" =>
        /\ \A i \in FilterCalls :
              /\ world.log[i].kind = "return"
              /\ world.log[i].n_turns >= 1
              /\ world.log[i].n_turns <= Cardinality(UserPositions(frames.messages))
              /\ world.log[i].caller = "build_html" => world.log[i].n_turns <= 10
        /\ LastTurnsRejected =>
              /\ Writes = {} /\ world.files = {}
              /\ pc \notin {"build_html", "turn_options"}
              /\ pc = "exit" => ret = Return(1)

\* C20 witness: build_html has made its ten calls for a conversation of more
\* than ten turns, after main wrote the XML of the last turns asked for.
C20_Witness ==
    /\ fn = "main" /\ pc = "exit" /\ ret = Return(0)
    /\ count_turns(frames.messages) > 10
    /\ args.last_turns = Given(count_turns(frames.messages))
    /\ Cardinality(FilterCalls) = 11
    /\ world.log[1].caller = "main"
    /\ world.log[2].op = "write_text"
    /\ world.log[12] = [op |-> "filter_last_turns", caller |-> "build_html",
                        n_turns |-> 10, kind |-> "return"]

(***************************************************************************)
(* fetch_conversation, step by step: frames holds its locals (platform,    *)
(* the loop index i, html_content and the exception on its way out of the  *)
(* try), world the browser ("none" before the launch, "open", "closed")    *)
(* and the log of what was done.  What the page does (a timeout, a         *)
(* selector found, the challenge cleared, the content) is chosen at the    *)
(* step that asks for it.                                                  *)
(***************************************************************************)
ChallengePolls == 30   \* range(30)
LastPoll == 29         \* i == 29

Https == <<"h","t","t","p","s",":","/","/">>

FetchUrls ==
    { Https \o ChatgptShare \o <<"a","b","1","2">>,
      Https \o ClaudeShare \o <<"a","b","1","2">>,
      Https \o GrokShare \o <<"a","b","1","2">>,
      Https \o <<"e","x","a","m","p","l","e",".","c","o","m","/","c","/","a","b">> }

\* the pages page.content() gives, by platform: pages with one message node
\* or none, Claude and Grok pages with and without attachment evidence
FetchedPages(platform) ==
    CASE platform = "chatgpt" ->
             [message_divs : SeqsUpTo([role : {"user"}, md : { <<"H","i">> }], 1),
              script_tags : { <<>> }]
      [] platform = "claude" ->
             [strings : { <<>>, << <<"3"," ","f","i","l","e","s"," ","h","i","d","d","e","n">> >> },
              divs : SeqsUpTo([classes : { {"!font-user-message"}, {"standard-markdown"} },
                               md : { <<"H","i">> }], 1)]
      [] platform = "grok" ->
             [media_containers : { <<>>, << <<>> >> },
              message_bubbles :
                  SeqsUpTo([parent : { [classes |-> {"items-end"}],
                                       [classes |-> {"items-start"}] },
                            md : { <<"H","i">> }], 1)]

FetchFrame == [platform |-> "", i |-> 0, html_content |-> None, pending |-> None]

InitFetch ==
    /\ fn = "fetch_conversation"
    /\ args \in [url : FetchUrls]
    /\ pc = "call"
    /\ ret = None
    /\ heap = <<>>
    /\ frames = FetchFrame
    /\ world = [browser |-> "none", log |-> <<>>]

Did(op) == [op |-> op, cleared |-> FALSE]

CloudflareError ==
    Raise("ValueError", [text |-> "Cloudflare challenge did not complete."])

\* the loop test with the failure of the last poll tested before the success
PollOutcomeFailureFirst(i, challenge_in_content, claude_in_url) ==
    IF i = LastPoll THEN "raise"
    ELSE IF ~challenge_in_content /\ claude_in_url THEN "break"
    ELSE "continue"

\* one poll of the challenge loop: break when "Just a moment" is not in the
\* content and "claude.ai" is in the URL, raise at i == 29 otherwise
PollOutcome(i, challenge_in_content, claude_in_url) ==
    IF ~challenge_in_content /\ claude_in_url THEN "break"
    ELSE IF i = LastPoll THEN "raise"
    ELSE "continue"

\* ensure_firefox_installed() and detect_platform(url): both raise out of the
\* function before a browser exists
FetchBegin ==
    /\ fn = "fetch_conversation" /\ pc = "call"
    /\ \E installed \in BOOLEAN :
          IF ~installed
          THEN /\ ret' = Raise("RuntimeError", [text |-> "Failed to install Firefox"])
               /\ pc' = "done" /\ frames' = frames
          ELSE IF detect_platform(args.url).kind = "raise"
          THEN /\ ret' = detect_platform(args.url)
               /\ pc' = "done" /\ frames' = frames
          ELSE /\ frames' = [frames EXCEPT !.platform = detect_platform(args.url).value]
               /\ pc' = "launch" /\ ret' = ret
    /\ UNCHANGED <<fn, args, heap, world>>

\* p.firefox.launch(...), the context, the page, the init script
FetchLaunch ==
    /\ fn = "fetch_conversation" /\ pc = "launch"
    /\ world' = [world EXCEPT !.browser = "open", !.log = Append(@, Did("launch"))]
    /\ pc' = "goto"
    /\ UNCHANGED <<fn, args, ret, heap, frames>>

\* page.goto(url, timeout=60000): a timeout raises out of the try
FetchGoto ==
    /\ fn = "fetch_conversation" /\ pc = "goto"
    /\ world' = [world EXCEPT !.log = Append(@, Did("goto"))]
    /\ \E timed_out \in BOOLEAN :
          IF timed_out
          THEN /\ frames' = [frames EXCEPT
                                !.pending = Raise("PlaywrightTimeout", [text |-> "goto"])]
               /\ pc' = "finally"
          ELSE /\ frames' = frames
               /\ pc' = CASE frames.platform = "chatgpt" -> "wait_for_selector"
                          [] frames.platform = "grok" -> "wait_for_timeout"
                          [] frames.platform = "claude" -> "challenge"
    /\ UNCHANGED <<fn, args, ret, heap>>

\* chatgpt: page.wait_for_selector('[data-testid*="conversation"]')
FetchWaitForSelector ==
    /\ fn = "fetch_conversation" /\ pc = "wait_for_selector"
    /\ \E found \in BOOLEAN :
          IF found
          THEN pc' = "content" /\ frames' = frames
          ELSE /\ frames' = [frames EXCEPT
                                !.pending = Raise("PlaywrightTimeout", [text |-> "selector"])]
               /\ pc' = "finally"
    /\ UNCHANGED <<fn, args, ret, heap, world>>

\* claude: page.wait_for_selector('text="Just a moment"', timeout=2000); its
\* timeout is caught: no challenge
FetchChallenge ==
    /\ fn = "fetch_conversation" /\ pc = "challenge"
    /\ \E detected \in BOOLEAN :
          IF detected
          THEN pc' = "poll" /\ frames' = [frames EXCEPT !.i = 0]
          ELSE pc' = "wait_for_timeout" /\ frames' = frames
    /\ UNCHANGED <<fn, args, ret, heap, world>>

\* one pass of for i in range(30): the one-second wait, the URL and the
\* content read, the two tests
FetchPoll ==
    /\ fn = "fetch_conversation" /\ pc = "poll"
    /\ \E challenge_in_content \in BOOLEAN, claude_in_url \in BOOLEAN :
          LET outcome == PollOutcome(frames.i, challenge_in_content, claude_in_url)
          IN  /\ world' = [world EXCEPT
                              !.log = Append(@, [op |-> "poll",
                                                 cleared |-> ~challenge_in_content
                                                             /\ claude_in_url])]
              /\ CASE outcome = "break" ->
                          pc' = "wait_for_timeout" /\ frames' = frames
                   [] outcome = "raise" ->
                          /\ pc' = "finally"
                          /\ frames' = [frames EXCEPT !.pending = CloudflareError]
                   [] outcome = "continue" ->
                          IF frames.i + 1 < ChallengePolls
                          THEN pc' = pc /\ frames' = [frames EXCEPT !.i = @ + 1]
                          ELSE pc' = "wait_for_timeout" /\ frames' = frames
    /\ UNCHANGED <<fn, args, ret, heap>>

\* page.wait_for_timeout(3000), of grok and of claude
FetchWaitForTimeout ==
    /\ fn = "fetch_conversation" /\ pc = "wait_for_timeout"
    /\ pc' = "content"
    /\ UNCHANGED <<fn, args, ret, heap, frames, world>>

\* html_content = page.content()
FetchContent ==
    /\ fn = "fetch_conversation" /\ pc = "content"
    /\ \E page \in FetchedPages(frames.platform) :
          frames' = [frames EXCEPT !.html_content = page]
    /\ pc' = "finally"
    /\ UNCHANGED <<fn, args, ret, heap, world>>

\* finally: browser.close(); an exception on its way out goes on out of the
\* function
FetchFinally ==
    /\ fn = "fetch_conversation" /\ pc = "finally"
    /\ world' = [world EXCEPT !.browser = "closed", !.log = Append(@, Did("close"))]
    /\ IF frames.pending # None
       THEN ret' = frames.pending /\ pc' = "done"
       ELSE ret' = ret /\ pc' = "extract"
    /\ UNCHANGED <<fn, args, heap, frames>>

\* the extractor of the platform on html_content
FetchExtract ==
    /\ fn = "fetch_conversation" /\ pc = "extract"
    /\ ret' = CASE frames.platform = "chatgpt" ->
                       extract_conversation_from_html(frames.html_content)
                [] frames.platform = "claude" ->
                       extract_claude_conversation(frames.html_content)
                [] frames.platform = "grok" ->
                       extract_grok_conversation(frames.html_content)
    /\ world' = [world EXCEPT !.log = Append(@, Did("extract"))]
    /\ pc' = "done"
    /\ UNCHANGED <<fn, args, heap, frames>>

NextFetch ==
    \/ FetchBegin \/ FetchLaunch \/ FetchGoto \/ FetchWaitForSelector
    \/ FetchChallenge \/ FetchPoll \/ FetchWaitForTimeout \/ FetchContent
    \/ FetchFinally \/ FetchExtract

SpecFetch == InitFetch /\ [][NextFetch]_vars

\* the positions of the log where op was done
Done(op) == {j \in DOMAIN world.log : world.log[j].op = op}

\* the polls of the challenge loop so far, and those of them that cleared
Polls == Done("poll")
ClearedPolls == {j \in Polls : world.log[j].cleared}

\* C22: once fetch_conversation has launched the browser, the browser is closed
\* on every path out of the page-loading phase: when the function ends after
\* a launch, with its result or with a navigation timeout, a selector timeout
\* or the Cloudflare failure, the browser is closed; the extractor runs only
\* with the browser closed; the challenge loop makes at most 30 polls, is left
\* without error at the first poll that finds the challenge cleared, the 30th
\* too, and raises the Cloudflare error when 30 polls found it not cleared.
C22_BrowserClosedPollsBounded ==
    fn = "fetch_conversation" =>
        /\ (pc = "done" /\ Done("launch") # {}) => world.browser = "closed"
        /\ (pc = "extract" \/ Done("extract") # {}) =>
               /\ world.browser = "closed"
               /\ \A e \in Done("extract") : \E c \in Done("close") : c < e
        /\ ret.kind = "return" => Done("extract") # {}
        /\ Cardinality(Polls) <= 30
        /\ (Polls # {} /\ pc # "poll") =>
               IF ClearedPolls # {}
               THEN /\ frames.pending = None
                    /\ Cardinality(ClearedPolls) = 1
                    /\ \A j \in Polls : j <= CHOOSE c \in ClearedPolls : TRUE
                    /\ ret # CloudflareError
               ELSE /\ Cardinality(Polls) = 30
                    /\ frames.pending = CloudflareError
                    /\ pc = "done" => ret = CloudflareError
        /\ pc = "poll" => ClearedPolls = {}

\* C22 witness: a Claude fetch whose challenge cleared at the 30th poll ended
\* with the messages of the page, the browser closed before the extraction.
C22_Witness ==
    /\ fn = "fetch_conversation" /\ pc = "done"
    /\ Cardinality(Polls) = 30
    /\ ClearedPolls # {}
    /\ world.browser = "closed"
    /\ ret.kind = "return"

(***************************************************************************)
(* All the calls together.                                                 *)
(***************************************************************************)
Init ==
    \/ InitTurns \/ InitClean \/ InitXml \/ InitDetect \/ InitExtract
    \/ InitObjects \/ InitCalls \/ InitMain \/ InitFetch

Next ==
    \/ NextTurns \/ NextClean \/ NextXml \/ NextDetect \/ NextExtract
    \/ NextObjects \/ NextCalls \/ NextMain \/ NextFetch

Spec == Init /\ [][Next]_vars

====
